---- MODULE Spec2Model ----
(***************************************************************************)
(* A model of the hybrid WAF's threat classification pipeline:            *)
(*   WAF/rule_engine.py  - text normaliser, signature engine, tampering   *)
(*   WAF/classifier.py   - ThreatClassifier (signature phase, ML phase)   *)
(*   WAF/request.py      - Request entity and DBController (audit store)  *)
(*                                                                         *)
(* A text is a sequence of characters; a character is a one-character     *)
(* string (control characters and the backtick carry a name such as "x1F", "x60").  None is the   *)
(* tuple <<"None">>, which is no text because "None" is no character.     *)
(***************************************************************************)
EXTENDS Integers, Sequences, FiniteSets, TLC

VARIABLES
    nIn,        \* normaliser check: the input text (or None)
    nImpl,      \* normaliser check: which implementation is applied
    nOut1,      \* normaliser check: normalize(x)
    nOut2,      \* normaliser check: normalize(normalize(x))
    nStage,     \* normaliser check: how many applications were made
    sCase,      \* scan check: the request drawn, with what its texts hold
    sOut,       \* scan check: the dictionary scan_request returned
    sDone,      \* scan check: scan_request has returned
    objs,       \* the Request objects, by name
    clf,        \* ThreatClassifier.clf: "loaded" or "None"
    pt_clf,     \* ThreatClassifier.pt_clf: "loaded" or "None"
    pc,         \* where the running call stands; "idle" between calls
    cur,        \* the Request the running (or last) call was given
    op,         \* the running (or last) call: "classify", "save"
    result,     \* of that call: "running", "returned", "raised"
    exc,        \* the exception it raised
    signature_threats,  \* classify_request: what scan_request returned
    predictions,        \* classify_request: the call of clf.predict
    pt_preds,           \* classify_request: the call of pt_clf.predict
    length_features,    \* classify_request: <<length, location>> pairs
    clfCalls,   \* calls of clf.predict in this classify_request
    ptCalls,    \* calls of pt_clf.predict in this classify_request
    classified, \* history: the Requests a classify_request has returned for
    tblLogs,    \* table logs as the writing connection sees it
    tblThreats, \* table threats as the writing connection sees it
    logsCommitted,      \* how many rows of logs are committed
    threatsCommitted,   \* how many rows of threats are committed
    files,      \* requests_log/: identifier -> snapshot
    clock,      \* how often the clock was read
    asked,      \* history: by identifier, what save was called with
    readOut     \* what the last read_request or read_all returned, and for which id

normVars == <<nIn, nImpl, nOut1, nOut2, nStage>>

scanVars == <<sCase, sOut, sDone>>

pipeVars ==
    <<objs, clf, pt_clf, pc, cur, op, result, exc, signature_threats, predictions,
      pt_preds, length_features, clfCalls, ptCalls, classified>>

storeVars ==
    <<tblLogs, tblThreats, logsCommitted, threatsCommitted, files, clock, asked, readOut>>

vars ==
    <<nIn, nImpl, nOut1, nOut2, nStage, sCase, sOut, sDone, objs, clf, pt_clf, pc, cur,
      op, result, exc, signature_threats, predictions, pt_preds, length_features,
      clfCalls, ptCalls, classified, tblLogs, tblThreats, logsCommitted,
      threatsCommitted, files, clock, asked, readOut>>

None == <<"None">>

(***************************************************************************)
(* Characters                                                              *)
(***************************************************************************)

\* chr(n) for the ASCII range, 1-indexed by n + 1.
Ascii ==
    << "x00", "x01", "x02", "x03", "x04", "x05", "x06", "x07", "x08", "\t", "\n", "x0B", "\f", "\r", "x0E", "x0F",
       "x10", "x11", "x12", "x13", "x14", "x15", "x16", "x17", "x18", "x19", "x1A", "x1B", "x1C", "x1D", "x1E", "x1F",
       " ", "!", "\"", "#", "$", "%", "&", "'", "(", ")", "*", "+", ",", "-", ".", "/",
       "0", "1", "2", "3", "4", "5", "6", "7", "8", "9", ":", ";", "<", "=", ">", "?",
       "@", "A", "B", "C", "D", "E", "F", "G", "H", "I", "J", "K", "L", "M", "N", "O",
       "P", "Q", "R", "S", "T", "U", "V", "W", "X", "Y", "Z", "[", "\\", "]", "^", "_",
       "x60", "a", "b", "c", "d", "e", "f", "g", "h", "i", "j", "k", "l", "m", "n", "o",
       "p", "q", "r", "s", "t", "u", "v", "w", "x", "y", "z", "{", "|", "}", "~", "x7F" >>

\* The character a byte that is no valid UTF-8 decodes to under errors='replace'.
ReplacementChar == "uFFFD"

Digits == {"0", "1", "2", "3", "4", "5", "6", "7", "8", "9"}

LowerLetters ==
    {"a", "b", "c", "d", "e", "f", "g", "h", "i", "j", "k", "l", "m",
     "n", "o", "p", "q", "r", "s", "t", "u", "v", "w", "x", "y", "z"}

UpperLetters ==
    {"A", "B", "C", "D", "E", "F", "G", "H", "I", "J", "K", "L", "M",
     "N", "O", "P", "Q", "R", "S", "T", "U", "V", "W", "X", "Y", "Z"}

\* ord(c) of an ASCII character.
Ord(c) == (CHOOSE i \in 1..Len(Ascii) : Ascii[i] = c) - 1

\* str.isspace() on the ASCII range: what str.split() and str.strip() remove.
IsSpace(c) == c \in {" ", "\t", "\n", "\r", "x0B", "\f", "x1C", "x1D", "x1E", "x1F"}

\* str.lower() of one character.
LowerChar(c) == IF c \in UpperLetters THEN Ascii[Ord(c) + 32 + 1] ELSE c

IsHex(c) == c \in Digits \cup {"a", "b", "c", "d", "e", "f", "A", "B", "C", "D", "E", "F"}

HexVal(c) ==
    IF c \in Digits THEN Ord(c) - Ord("0")
    ELSE IF c \in LowerLetters THEN Ord(c) - Ord("a") + 10
    ELSE Ord(c) - Ord("A") + 10

\* One decoded byte as a character.  A byte of 0x80 and above is part of a
\* multi-byte UTF-8 sequence; standing alone it is replaced (errors='replace').
ByteChr(b) == IF b < Len(Ascii) THEN Ascii[b + 1] ELSE ReplacementChar

(***************************************************************************)
(* urllib.parse.unquote / unquote_plus, as the normalisers call them       *)
(***************************************************************************)

\* F applied to the value of v: v is evaluated once, however often F uses
\* its argument (Python evaluates an argument before the call).
Bind(v, F(_)) == CHOOSE r \in {F(x) : x \in {v}} : TRUE

\* The positions of s, in order, whose character satisfies Keep.
Positions(s, Keep(_)) == SelectSeq([i \in 1..Len(s) |-> i], Keep)

\* The first position at or after `from` whose character satisfies Test, or
\* Len(s) + 1.
FirstAt(s, from, Test(_)) ==
    Bind(from, LAMBDA i :
        IF \E j \in i..Len(s) : Test(s[j])
        THEN CHOOSE j \in i..Len(s) : Test(s[j]) /\ \A k \in i..(j - 1) : ~Test(s[k])
        ELSE Len(s) + 1)

\* An escape starts at i: "%" and two hexadecimal digits.  Escapes cannot
\* overlap, the two characters after "%" being digits.
EscapeAt(s, i) ==
    i >= 1 /\ i + 2 <= Len(s) /\ s[i] = "%" /\ IsHex(s[i + 1]) /\ IsHex(s[i + 2])

\* Every escape replaced by the character of its byte, the rest kept.
unquote(string) ==
    Bind(string, LAMBDA s :
    Bind(Positions(s, LAMBDA i : ~EscapeAt(s, i - 1) /\ ~EscapeAt(s, i - 2)),
         LAMBDA kept :
            [n \in 1..Len(kept) |->
                IF EscapeAt(s, kept[n])
                THEN ByteChr(16 * HexVal(s[kept[n] + 1]) + HexVal(s[kept[n] + 2]))
                ELSE s[kept[n]]]))

\* string.replace('+', ' ')
PlusToSpace(string) ==
    Bind(string, LAMBDA s : [i \in 1..Len(s) |-> IF s[i] = "+" THEN " " ELSE s[i]])

unquote_plus(s) == unquote(PlusToSpace(s))

(***************************************************************************)
(* Text Normalizer: rule_engine._unquote / _clean, classifier._clean_text  *)
(***************************************************************************)

\* The decode caps of the two implementations.
UnquoteCap == 5
CleanTextCap == 5

\* ' '.join(t.strip().split()): runs of whitespace become one space, none
\* is left at either end.
CollapseWhitespace(t) ==
    Bind(t, LAMBDA s :
    Bind(FirstAt(s, 1, LAMBDA c : ~IsSpace(c)), LAMBDA first :
    \* a run of whitespace is kept, as its first position, when a word
    \* stands before it and another after it
    Bind(Positions(s, LAMBDA i :
                    \/ ~IsSpace(s[i])
                    \/ /\ i > first
                       /\ ~IsSpace(s[i - 1])
                       /\ FirstAt(s, i, LAMBDA c : ~IsSpace(c)) <= Len(s)),
         LAMBDA kept :
            [n \in 1..Len(kept) |-> IF IsSpace(s[kept[n]]) THEN " " ELSE s[kept[n]]])))

\* t.lower()
Lower(t) == Bind(t, LAMBDA s : [i \in 1..Len(s) |-> LowerChar(s[i])])

\* rule_engine._unquote: the while loop, k decodes made so far.
RECURSIVE UnquoteLoop(_, _)
UnquoteLoop(prev, k) ==
    IF k < UnquoteCap
    THEN Bind(unquote_plus(prev), LAMBDA decoded :
            IF decoded = prev THEN prev ELSE UnquoteLoop(decoded, k + 1))
    ELSE prev

\* A variant that decodes a single layer only.
UnquoteOnce(text) == unquote_plus(text)

_unquote(text) == UnquoteLoop(text, 0)

_clean(text) ==
    IF text = None THEN <<>>
    ELSE Lower(CollapseWhitespace(_unquote(text)))

\* classifier._clean_text: the for loop over range(5).
RECURSIVE CleanTextLoop(_, _)
CleanTextLoop(prev, n) ==
    IF n < CleanTextCap
    THEN Bind(unquote_plus(prev), LAMBDA decoded :
            IF decoded = prev THEN prev ELSE CleanTextLoop(decoded, n + 1))
    ELSE prev

_clean_text(text) ==
    IF text = None THEN <<>>
    ELSE Lower(CollapseWhitespace(CleanTextLoop(text, 0)))

(***************************************************************************)
(* Regular expressions (module re), as far as SIGNATURES uses them.        *)
(* An expression is a record; Match gives the set of positions at which a  *)
(* match that starts at one of the positions P can end (a position is the  *)
(* number of characters to its left).                                      *)
(***************************************************************************)

Lit(c) == [t |-> "lit", c |-> c]
NotChar(c) == [t |-> "not", c |-> c]
AnyChar == [t |-> "dot"]
SpaceClass == [t |-> "s"]
WordClass == [t |-> "w"]
DigitClass == [t |-> "d"]
Boundary == [t |-> "b"]
Cat(rs) == [t |-> "cat", rs |-> rs]
Alt(rs) == [t |-> "alt", rs |-> rs]
Star(r) == [t |-> "star", r |-> r]
Plus(r) == [t |-> "cat", rs |-> <<r, [t |-> "star", r |-> r]>>]
Word(w) == [t |-> "cat", rs |-> [i \in 1..Len(w) |-> Lit(w[i])]]

\* \w of a str pattern, on the ASCII range.
IsWordChar(c) == c \in Digits \cup LowerLetters \cup UpperLetters \cup {"_"}

\* \b: exactly one side of position p is a word character.
AtBoundary(s, p) ==
    LET before == p >= 1 /\ IsWordChar(s[p])
        after == p < Len(s) /\ IsWordChar(s[p + 1])
    IN  before # after

\* What one character-consuming expression accepts; re.I folds the case of
\* a literal.
Accepts(r, c) ==
    CASE r.t = "lit" -> LowerChar(c) = LowerChar(r.c)
      [] r.t = "not" -> c # r.c
      [] r.t = "dot" -> c # "\n"
      [] r.t = "s" -> IsSpace(c)
      [] r.t = "w" -> IsWordChar(c)
      [] r.t = "d" -> c \in Digits

\* r*, for r an expression that takes one character (all that SIGNATURES
\* repeats): from p, every position up to the end of the run of characters
\* r accepts.
MatchStar(r, s, P) ==
    UNION {p..(FirstAt(s, p + 1, LAMBDA c : ~Accepts(r, c)) - 1) : p \in P}

RECURSIVE Match(_, _, _)
RECURSIVE MatchCat(_, _, _, _)

Match(r, s, starts) ==
    Bind(starts, LAMBDA P :
    IF P = {} THEN {}
    ELSE CASE r.t = "cat" -> MatchCat(r.rs, 1, s, P)
           [] r.t = "alt" -> UNION {Match(r.rs[i], s, P) : i \in 1..Len(r.rs)}
           [] r.t = "star" -> MatchStar(r.r, s, P)
           [] r.t = "b" -> {p \in P : AtBoundary(s, p)}
           [] OTHER -> {p + 1 : p \in {q \in P : q < Len(s) /\ Accepts(r, s[q + 1])}})

MatchCat(rs, i, s, P) ==
    IF i > Len(rs) THEN P ELSE MatchCat(rs, i + 1, s, Match(rs[i], s, P))

\* pat.search(text) is not None
Search(r, text) == Bind(text, LAMBDA s : Match(r, s, 0..Len(s)) # {})

(***************************************************************************)
(* rule_engine.SIGNATURES, in the order of the dictionary                  *)
(***************************************************************************)
\* (?:\bunion\b\s+select|\bselect\b.+\bfrom\b)
Sqli1 ==
    Alt(<<Cat(<<Boundary, Word(<<"u", "n", "i", "o", "n">>), Boundary,
        Plus(SpaceClass), Word(<<"s", "e", "l", "e", "c", "t">>)>>),
        Cat(<<Boundary, Word(<<"s", "e", "l", "e", "c", "t">>), Boundary,
        Plus(AnyChar), Boundary, Word(<<"f", "r", "o", "m">>),
        Boundary>>)>>)

\* (?:\bdrop\b\s+table|\binsert\b\s+into|\bupdate\b\s+\w+\s+set)
Sqli2 ==
    Alt(<<Cat(<<Boundary, Word(<<"d", "r", "o", "p">>), Boundary,
        Plus(SpaceClass), Word(<<"t", "a", "b", "l", "e">>)>>),
        Cat(<<Boundary, Word(<<"i", "n", "s", "e", "r", "t">>), Boundary,
        Plus(SpaceClass), Word(<<"i", "n", "t", "o">>)>>), Cat(<<Boundary,
        Word(<<"u", "p", "d", "a", "t", "e">>), Boundary,
        Plus(SpaceClass), Plus(WordClass), Plus(SpaceClass), Word(<<"s",
        "e", "t">>)>>)>>)

\* (?:'\s*or\s*'\d+'='\d+'|'\s*or\s*1=1|\bor\b\s+1=1)
Sqli3 ==
    Alt(<<Cat(<<Lit("'"), Star(SpaceClass), Word(<<"o", "r">>),
        Star(SpaceClass), Lit("'"), Plus(DigitClass), Word(<<"'", "=",
        "'">>), Plus(DigitClass), Lit("'")>>), Cat(<<Lit("'"),
        Star(SpaceClass), Word(<<"o", "r">>), Star(SpaceClass),
        Word(<<"1", "=", "1">>)>>), Cat(<<Boundary, Word(<<"o", "r">>),
        Boundary, Plus(SpaceClass), Word(<<"1", "=", "1">>)>>)>>)

\* (?:;\s*--|--\s*)
Sqli4 ==
    Alt(<<Cat(<<Lit(";"), Star(SpaceClass), Word(<<"-", "-">>)>>),
        Cat(<<Word(<<"-", "-">>), Star(SpaceClass)>>)>>)

\* \b(benchmark|sleep|information_schema)\b
Sqli5 ==
    Cat(<<Boundary, Alt(<<Word(<<"b", "e", "n", "c", "h", "m", "a", "r",
        "k">>), Word(<<"s", "l", "e", "e", "p">>), Word(<<"i", "n", "f",
        "o", "r", "m", "a", "t", "i", "o", "n", "_", "s", "c", "h", "e",
        "m", "a">>)>>), Boundary>>)

\* <\s*script
Xss1 ==
    Cat(<<Lit("<"), Star(SpaceClass), Word(<<"s", "c", "r", "i", "p",
        "t">>)>>)

\* <\s*img\b[^>]*\bonerror\b
Xss2 ==
    Cat(<<Lit("<"), Star(SpaceClass), Word(<<"i", "m", "g">>), Boundary,
        Star(NotChar(">")), Boundary, Word(<<"o", "n", "e", "r", "r", "o",
        "r">>), Boundary>>)

\* javascript:\s*
Xss3 ==
    Cat(<<Word(<<"j", "a", "v", "a", "s", "c", "r", "i", "p", "t", ":">>),
        Star(SpaceClass)>>)

\* onload\s*=
Xss4 ==
    Cat(<<Word(<<"o", "n", "l", "o", "a", "d">>), Star(SpaceClass),
        Lit("=")>>)

\* alert\s*\(
Xss5 ==
    Cat(<<Word(<<"a", "l", "e", "r", "t">>), Star(SpaceClass), Lit("(")>>)

\* (?:;|&&|\|\||\|)\s*\w+
Cmdi1 ==
    Cat(<<Alt(<<Lit(";"), Word(<<"&", "&">>), Word(<<"|", "|">>),
        Lit("|")>>), Star(SpaceClass), Plus(WordClass)>>)

\* `[^`]+`
Cmdi2 ==
    Cat(<<Lit("x60"), Plus(NotChar("x60")), Lit("x60")>>)

\* \b(cat|ls|rm|wget|curl|whoami|powershell|cmd\.exe|sh)\b
Cmdi3 ==
    Cat(<<Boundary, Alt(<<Word(<<"c", "a", "t">>), Word(<<"l", "s">>),
        Word(<<"r", "m">>), Word(<<"w", "g", "e", "t">>), Word(<<"c", "u",
        "r", "l">>), Word(<<"w", "h", "o", "a", "m", "i">>), Word(<<"p",
        "o", "w", "e", "r", "s", "h", "e", "l", "l">>), Word(<<"c", "m",
        "d", ".", "e", "x", "e">>), Word(<<"s", "h">>)>>), Boundary>>)

\* \.\.\s*/
Path1 ==
    Cat(<<Word(<<".", ".">>), Star(SpaceClass), Lit("/")>>)

\* \.\.\\
Path2 ==
    Word(<<".", ".", "\\">>)

\* (?:/|\\)etc(?:/|\\)passwd
Path3 ==
    Cat(<<Alt(<<Lit("/"), Lit("\\")>>), Word(<<"e", "t", "c">>),
        Alt(<<Lit("/"), Lit("\\")>>), Word(<<"p", "a", "s", "s", "w",
        "d">>)>>)

\* web-inf|boot\.ini
Path4 ==
    Alt(<<Word(<<"w", "e", "b", "-", "i", "n", "f">>), Word(<<"b", "o",
        "o", "t", ".", "i", "n", "i">>)>>)

SIGNATURES ==
    << <<"sqli", <<Sqli1, Sqli2, Sqli3, Sqli4, Sqli5>> >>,
       <<"xss", <<Xss1, Xss2, Xss3, Xss4, Xss5>> >>,
       <<"cmdi", <<Cmdi1, Cmdi2, Cmdi3>> >>,
       <<"path-traversal", <<Path1, Path2, Path3, Path4>> >> >>


(***************************************************************************)
(* urllib.parse.parse_qs(qs), with its defaults: separator '&', blank      *)
(* values dropped, no strict parsing.  A dictionary is the sequence of its *)
(* <<key, value>> items in insertion order.                                *)
(***************************************************************************)

DictHas(d, k) == \E i \in 1..Len(d) : d[i][1] = k

DictGet(d, k) == d[CHOOSE i \in 1..Len(d) : d[i][1] = k][2]

\* d[k] = v
DictSet(d, key, value) ==
    Bind(key, LAMBDA k :
    Bind(value, LAMBDA v :
        IF DictHas(d, k)
        THEN [i \in 1..Len(d) |-> IF d[i][1] = k THEN <<k, v>> ELSE d[i]]
        ELSE Append(d, <<k, v>>)))

\* list(d.values())
DictValues(d) == [i \in 1..Len(d) |-> d[i][2]]

\* The first position at or after i that holds c, or Len(s) + 1.
Find(s, c, i) == FirstAt(s, i, LAMBDA x : x = c)

\* qs.split(sep), from position i on.
RECURSIVE SplitFrom(_, _, _)
SplitFrom(s, sep, i) ==
    Bind(Find(s, sep, i), LAMBDA j :
        IF j > Len(s) THEN <<SubSeq(s, i, Len(s))>>
        ELSE <<SubSeq(s, i, j - 1)>> \o SplitFrom(s, sep, j + 1))

\* parse_qsl: the (name, value) pairs of the fields that hold '=' and a
\* non-empty value, each side with '+' as space and percent-decoded.
RECURSIVE QslFrom(_, _)
QslFrom(args, i) ==
    IF i > Len(args) THEN <<>>
    ELSE Bind(args[i], LAMBDA nv :
         Bind(Find(nv, "=", 1), LAMBDA eq :
            IF nv = <<>> \/ eq > Len(nv) \/ eq = Len(nv)
            THEN QslFrom(args, i + 1)
            ELSE << <<unquote(PlusToSpace(SubSeq(nv, 1, eq - 1))),
                      unquote(PlusToSpace(SubSeq(nv, eq + 1, Len(nv))))>> >>
                     \o QslFrom(args, i + 1)))

parse_qsl(qs) ==
    Bind(qs, LAMBDA s :
        IF s = <<>> THEN <<>>
        ELSE Bind(SplitFrom(s, "&", 1), LAMBDA args : QslFrom(args, 1)))

RECURSIVE GroupPairs(_, _, _)
GroupPairs(pairs, i, parsed) ==
    Bind(parsed, LAMBDA d :
    IF i > Len(pairs) THEN d
    ELSE GroupPairs(pairs, i + 1,
                    IF DictHas(d, pairs[i][1])
                    THEN DictSet(d, pairs[i][1], Append(DictGet(d, pairs[i][1]), pairs[i][2]))
                    ELSE DictSet(d, pairs[i][1], <<pairs[i][2]>>)))

parse_qs(qs) == Bind(parse_qsl(qs), LAMBDA pairs : GroupPairs(pairs, 1, <<>>))

(***************************************************************************)
(* json.loads(s).  A value is a record with its kind k: "str" and "int"    *)
(* and "float" (v the text), "true", "false", "null", "list" (v the        *)
(* elements), "dict" (v the items).  Of the grammar, string escapes are    *)
(* left out (a backslash in a string fails to parse here), and a number    *)
(* with a fraction or exponent keeps its literal text: the bodies drawn    *)
(* below hold neither.                                                     *)
(***************************************************************************)

JsonWs == {" ", "\t", "\n", "\r"}

ControlChars == {Ascii[n] : n \in 1..32}

JFail == [ok |-> FALSE]
JOk(v, i) == [ok |-> TRUE, v |-> v, i |-> i]

SkipWs(s, i) == FirstAt(s, i, LAMBDA c : c \notin JsonWs)

StartsWith(s, i, w) == i + Len(w) - 1 <= Len(s) /\ SubSeq(s, i, i + Len(w) - 1) = w

DigitsEnd(s, i) == FirstAt(s, i, LAMBDA c : c \notin Digits)

\* The position of the quote that closes the string whose first character
\* is at i, or 0.
StringEnd(s, i) ==
    Bind(FirstAt(s, i, LAMBDA c : c \in {"\"", "\\"} \cup ControlChars), LAMBDA j :
        IF j <= Len(s) /\ s[j] = "\"" THEN j ELSE 0)

\* (-?(?:0|[1-9]\d*))(\.\d+)?([eE][-+]?\d+)?
ParseNumber(s, i) ==
    Bind(IF i <= Len(s) /\ s[i] = "-" THEN i + 1 ELSE i, LAMBDA j :
    Bind(IF j <= Len(s) /\ s[j] = "0" THEN j + 1 ELSE DigitsEnd(s, j), LAMBDA intEnd :
    Bind(IF intEnd + 1 <= Len(s) /\ s[intEnd] = "." /\ s[intEnd + 1] \in Digits
         THEN DigitsEnd(s, intEnd + 1) ELSE intEnd, LAMBDA fracEnd :
    Bind(IF fracEnd + 1 <= Len(s) /\ s[fracEnd + 1] \in {"+", "-"}
         THEN fracEnd + 2 ELSE fracEnd + 1, LAMBDA expAt :
    Bind(IF fracEnd <= Len(s) /\ s[fracEnd] \in {"e", "E"}
            /\ expAt <= Len(s) /\ s[expAt] \in Digits
         THEN DigitsEnd(s, expAt) ELSE fracEnd, LAMBDA expEnd :
        IF intEnd = j THEN JFail
        ELSE IF expEnd = intEnd
             THEN JOk([k |-> "int", v |-> SubSeq(s, i, intEnd - 1)], intEnd)
             ELSE JOk([k |-> "float", v |-> SubSeq(s, i, expEnd - 1)], expEnd))))))

RECURSIVE ParseValue(_, _)
RECURSIVE ParseMembers(_, _, _)
RECURSIVE ParseElements(_, _, _)

\* scan_once at position i
ParseValue(s, idx) ==
    Bind(idx, LAMBDA i :
    IF i > Len(s) THEN JFail
    ELSE IF s[i] = "\""
         THEN Bind(StringEnd(s, i + 1), LAMBDA e :
                IF e = 0 THEN JFail
                ELSE JOk([k |-> "str", v |-> SubSeq(s, i + 1, e - 1)], e + 1))
    ELSE IF s[i] = "{"
         THEN Bind(SkipWs(s, i + 1), LAMBDA j :
                IF j <= Len(s) /\ s[j] = "}" THEN JOk([k |-> "dict", v |-> <<>>], j + 1)
                ELSE ParseMembers(s, j, <<>>))
    ELSE IF s[i] = "["
         THEN Bind(SkipWs(s, i + 1), LAMBDA j :
                IF j <= Len(s) /\ s[j] = "]" THEN JOk([k |-> "list", v |-> <<>>], j + 1)
                ELSE ParseElements(s, j, <<>>))
    ELSE IF StartsWith(s, i, <<"n", "u", "l", "l">>) THEN JOk([k |-> "null"], i + 4)
    ELSE IF StartsWith(s, i, <<"t", "r", "u", "e">>) THEN JOk([k |-> "true"], i + 4)
    ELSE IF StartsWith(s, i, <<"f", "a", "l", "s", "e">>) THEN JOk([k |-> "false"], i + 5)
    ELSE IF ParseNumber(s, i).ok THEN ParseNumber(s, i)
    ELSE IF StartsWith(s, i, <<"N", "a", "N">>)
         THEN JOk([k |-> "float", v |-> <<"n", "a", "n">>], i + 3)
    ELSE IF StartsWith(s, i, <<"I", "n", "f", "i", "n", "i", "t", "y">>)
         THEN JOk([k |-> "float", v |-> <<"i", "n", "f">>], i + 8)
    ELSE IF StartsWith(s, i, <<"-", "I", "n", "f", "i", "n", "i", "t", "y">>)
         THEN JOk([k |-> "float", v |-> <<"-", "i", "n", "f">>], i + 9)
    ELSE JFail)

\* JSONObject: the members from the key at position i on.
ParseMembers(s, i, acc) ==
    IF i > Len(s) \/ s[i] # "\"" THEN JFail
    ELSE Bind(StringEnd(s, i + 1), LAMBDA e :
         IF e = 0 THEN JFail
         ELSE Bind(SkipWs(s, e + 1), LAMBDA c :
         IF c > Len(s) \/ s[c] # ":" THEN JFail
         ELSE Bind(ParseValue(s, SkipWs(s, c + 1)), LAMBDA r :
         IF ~r.ok THEN JFail
         ELSE Bind(SkipWs(s, r.i), LAMBDA n :
         Bind(DictSet(acc, SubSeq(s, i + 1, e - 1), r.v), LAMBDA items :
            IF n > Len(s) THEN JFail
            ELSE IF s[n] = "}" THEN JOk([k |-> "dict", v |-> items], n + 1)
            ELSE IF s[n] = "," THEN ParseMembers(s, SkipWs(s, n + 1), items)
            ELSE JFail)))))

\* JSONArray: the elements from the value at position i on.
ParseElements(s, i, acc) ==
    Bind(ParseValue(s, i), LAMBDA r :
    IF ~r.ok THEN JFail
    ELSE Bind(SkipWs(s, r.i), LAMBDA n :
         Bind(Append(acc, r.v), LAMBDA items :
            IF n > Len(s) THEN JFail
            ELSE IF s[n] = "]" THEN JOk([k |-> "list", v |-> items], n + 1)
            ELSE IF s[n] = "," THEN ParseElements(s, SkipWs(s, n + 1), items)
            ELSE JFail)))

\* json.loads(s): [ok |-> FALSE] stands for JSONDecodeError.
json_loads(text) ==
    Bind(text, LAMBDA s :
    Bind(ParseValue(s, SkipWs(s, 1)), LAMBDA r :
        IF r.ok /\ SkipWs(s, r.i) = Len(s) + 1 THEN r ELSE JFail))

(***************************************************************************)
(* str(v), repr(v) and len(v) of a value json.loads returned               *)
(***************************************************************************)

Chars(s) == {s[i] : i \in 1..Len(s)}

RECURSIVE Flatten(_)
Flatten(lists) ==
    Bind(lists, LAMBDA ss : IF ss = <<>> THEN <<>> ELSE Head(ss) \o Flatten(Tail(ss)))

\* sep.join(parts)
RECURSIVE Join(_, _)
Join(sep, iterable) ==
    Bind(iterable, LAMBDA parts :
        IF parts = <<>> THEN <<>>
        ELSE IF Len(parts) = 1 THEN parts[1]
        ELSE parts[1] \o sep \o Join(sep, Tail(parts)))

\* repr of a str: single quotes, unless it holds one and no double quote.
ReprStr(s) ==
    Bind(IF "'" \in Chars(s) /\ "\"" \notin Chars(s) THEN "\"" ELSE "'", LAMBDA q :
        LET esc(c) == IF c = "\\" THEN <<"\\", "\\">>
                      ELSE IF c = q THEN <<"\\", c>>
                      ELSE IF c = "x7F" THEN <<"\\", "x", "7", "f">>
                      ELSE <<c>>
        IN  <<q>> \o Flatten([i \in 1..Len(s) |-> esc(s[i])]) \o <<q>>)

RECURSIVE PyRepr(_)
PyRepr(v) ==
    CASE v.k = "str" -> ReprStr(v.v)
      [] v.k = "int" -> IF v.v = <<"-", "0">> THEN <<"0">> ELSE v.v
      [] v.k = "float" -> v.v
      [] v.k = "true" -> <<"T", "r", "u", "e">>
      [] v.k = "false" -> <<"F", "a", "l", "s", "e">>
      [] v.k = "null" -> <<"N", "o", "n", "e">>
      [] v.k = "list" ->
            <<"[">> \o Join(<<",", " ">>, [i \in 1..Len(v.v) |-> PyRepr(v.v[i])]) \o <<"]">>
      [] v.k = "dict" ->
            <<"{">> \o Join(<<",", " ">>,
                            [i \in 1..Len(v.v) |->
                                ReprStr(v.v[i][1]) \o <<":", " ">> \o PyRepr(v.v[i][2])])
                \o <<"}">>

PyStr(v) == IF v.k = "str" THEN v.v ELSE PyRepr(v)

\* len(v) is defined for a str, a list and a dict; for the rest it raises
\* TypeError.
HasLen(v) == v.k \in {"str", "list", "dict"}
PyLen(v) == Len(v.v)

(***************************************************************************)
(* request.Request: the fields the pipeline and the store read and write.  *)
(* headers is a function from the header names present to their values;    *)
(* threats is a function from the labels recorded to their locations       *)
(* (<<>> is the empty dictionary).                                         *)
(***************************************************************************)

EmptyDict == <<>>

\* id=None and timestamp=None, in the form of an identifier and of a
\* timestamp (no row has the identifier 0).
NoId == 0
NoTimestamp == [type |-> "NoneType", tick |-> 0]

\* Request.__init__
NewRequest(origin, host, request, body, method, headers) ==
    [id |-> NoId, timestamp |-> NoTimestamp, origin |-> origin, host |-> host,
     request |-> request, body |-> body, method |-> method,
     headers |-> headers, threats |-> EmptyDict]

\* headers.get(name)
HeaderGet(headers, name) == IF name \in DOMAIN headers THEN headers[name] ELSE None

\* The truth value of an optional text: neither None nor ''.
Truthy(text) == text # None /\ text # <<>>

\* d[k] = v on a label-keyed dictionary
MapSet(d, k, v) == [x \in DOMAIN d \cup {k} |-> IF x = k THEN v ELSE d[x]]

(***************************************************************************)
(* rule_engine.scan_request                                                *)
(***************************************************************************)

\* The parameter length above which a value counts as tampering.
TamperLimit == 100

ScannedHeaders ==
    << <<"Cookie", "Cookie">>, <<"User_Agent", "User Agent">>,
       <<"Accept_Encoding", "Accept Encoding">>,
       <<"Accept_Language", "Accept Language">> >>

\* The (text, location) pairs to scan, in scan order.
RECURSIVE HeaderScans(_, _)
HeaderScans(headers, i) ==
    IF i > Len(ScannedHeaders) THEN <<>>
    ELSE (IF Truthy(HeaderGet(headers, ScannedHeaders[i][1]))
          THEN << <<_clean(headers[ScannedHeaders[i][1]]), ScannedHeaders[i][2]>> >>
          ELSE <<>>)
         \o HeaderScans(headers, i + 1)

to_scan(req) ==
    (IF Truthy(req.request) THEN << <<_clean(req.request), "Request">> >> ELSE <<>>)
        \o (IF Truthy(req.body) THEN << <<_clean(req.body), "Body">> >> ELSE <<>>)
        \o HeaderScans(req.headers, 1)

\* for pat in patterns: if pat.search(text): ... break
AnyPatternMatches(patterns, text) ==
    \E i \in 1..Len(patterns) : Search(patterns[i], text)

\* A variant in which the first category matched in a field ends the scan of
\* that field.
RECURSIVE ScanCategoriesFirstOnly(_, _, _, _)
ScanCategoriesFirstOnly(found, text, location, i) ==
    Bind(found, LAMBDA threats :
    IF i > Len(SIGNATURES) THEN threats
    ELSE IF SIGNATURES[i][1] \in DOMAIN threats
         THEN ScanCategoriesFirstOnly(threats, text, location, i + 1)
    ELSE IF AnyPatternMatches(SIGNATURES[i][2], text)
         THEN MapSet(threats, SIGNATURES[i][1], location)
    ELSE ScanCategoriesFirstOnly(threats, text, location, i + 1))

\* for threat, patterns in SIGNATURES.items(): the categories from the i-th on,
\* against one field.
RECURSIVE ScanCategories(_, _, _, _)
ScanCategories(found, text, location, i) ==
    Bind(found, LAMBDA threats :
    IF i > Len(SIGNATURES) THEN threats
    ELSE IF SIGNATURES[i][1] \in DOMAIN threats
         THEN ScanCategories(threats, text, location, i + 1)
    ELSE IF AnyPatternMatches(SIGNATURES[i][2], text)
         THEN ScanCategories(MapSet(threats, SIGNATURES[i][1], location),
                             text, location, i + 1)
    ELSE ScanCategories(threats, text, location, i + 1))

\* A variant that scans the fields from the last to the first, so that the
\* last field holding a category gets it.
RECURSIVE ScanFieldsReversed(_, _, _)
ScanFieldsReversed(threats, fields, i) ==
    IF i > Len(fields) THEN threats
    ELSE ScanFieldsReversed(ScanCategories(threats, fields[Len(fields) + 1 - i][1],
                                           fields[Len(fields) + 1 - i][2], 1),
                            fields, i + 1)

\* for text, location in to_scan: the fields from the i-th on.
RECURSIVE ScanFields(_, _, _)
ScanFields(threats, fields, i) ==
    IF i > Len(fields) THEN threats
    ELSE ScanFields(ScanCategories(threats, fields[i][1], fields[i][2], 1),
                    fields, i + 1)

SignatureMatches(req) == Bind(to_scan(req), LAMBDA fields : ScanFields(EmptyDict, fields, 1))

\* query_params = parse_qs(_clean(req.request or ''))
query_params(req) ==
    parse_qs(_clean(IF Truthy(req.request) THEN req.request ELSE <<>>))

\* body_params[k] = [str(v)] for the items of the decoded object
JsonBodyParams(obj) ==
    Bind(obj.v, LAMBDA items :
        [i \in 1..Len(items) |-> <<items[i][1], <<PyStr(items[i][2])>> >>])

\* body_params: form decoding of the cleaned body first, then the JSON object
\* of the raw body; obj.items() of a value that is no dict raises inside the
\* try and leaves body_params empty.
body_params(req) ==
    IF ~Truthy(req.body) THEN <<>>
    ELSE Bind(parse_qs(_clean(req.body)), LAMBDA form :
            IF form # <<>> THEN form
            ELSE Bind(json_loads(req.body), LAMBDA obj :
                    IF obj.ok /\ obj.v.k = "dict" THEN JsonBodyParams(obj.v)
                    ELSE <<>>))

\* A variant of the length test that also fires at the limit.
TooLongInclusive(v) == Len(v) >= TamperLimit

\* len(str(v)) > 100
TooLong(v) == Len(v) > TamperLimit

\* Some value of some list of the two dictionaries is too long.
SomeValueTooLong(qp, bp) ==
    Bind(DictValues(qp) \o DictValues(bp), LAMBDA lists :
        \E i \in 1..Len(lists) : \E j \in 1..Len(lists[i]) : TooLong(lists[i][j]))

\* for v in vlist: len(str(v)), for the lists of one dictionary, each with
\* the location of the dictionary.
ListLengths(d, location) ==
    Flatten([i \in 1..Len(d) |->
                [j \in 1..Len(d[i][2]) |-> <<Len(d[i][2][j]), location>>]])

\* The lengths the loop of lines 133-135 tests against the limit, in its
\* order: those of the query parameters, then those of the body parameters.
CheckedLengths(req) ==
    Bind(query_params(req), LAMBDA qp :
    Bind(body_params(req), LAMBDA bp :
        ListLengths(qp, "Request") \o ListLengths(bp, "Body")))

\* A variant that attributes the label to the dictionary holding the long
\* value.
ScanRequestBySource(req) ==
    Bind(SignatureMatches(req), LAMBDA threats :
    Bind(query_params(req), LAMBDA qp :
    Bind(body_params(req), LAMBDA bp :
        IF SomeValueTooLong(qp, bp)
        THEN MapSet(threats, "parameter-tampering",
                    IF SomeValueTooLong(<<>>, bp) THEN "Body" ELSE "Request")
        ELSE threats)))

scan_request(req) ==
    Bind(SignatureMatches(req), LAMBDA threats :
    Bind(query_params(req), LAMBDA qp :
    Bind(body_params(req), LAMBDA bp :
        IF SomeValueTooLong(qp, bp)
        THEN MapSet(threats, "parameter-tampering", IF bp # <<>> THEN "Body" ELSE "Request")
        ELSE threats)))

(***************************************************************************)
(* ThreatClassifier.classify_request: the pieces of the ML phase           *)
(***************************************************************************)

\* ThreatClassifier._is_valid
_is_valid(parameter) == parameter # None /\ parameter # <<>>

\* The headers whose values become text features, with their locations.
FeatureHeaders ==
    << <<"Cookie", "Cookie">>, <<"User_Agent", "User Agent">>,
       <<"Accept_Encoding", "Accept Encoding">>,
       <<"Accept_Language", "Accept Language">> >>

RECURSIVE HeaderFeatures(_, _)
HeaderFeatures(headers, i) ==
    IF i > Len(FeatureHeaders) THEN <<>>
    ELSE (IF FeatureHeaders[i][1] \in DOMAIN headers
             /\ _is_valid(HeaderGet(headers, FeatureHeaders[i][1]))
          THEN << <<_clean_text(headers[FeatureHeaders[i][1]]), FeatureHeaders[i][2]>> >>
          ELSE <<>>)
         \o HeaderFeatures(headers, i + 1)

\* parameters and locations: the <<text, location>> pairs handed to the text
\* scorer, in order.
TextFeatures(req) ==
    (IF _is_valid(req.request) THEN << <<_clean_text(req.request), "Request">> >> ELSE <<>>)
        \o (IF _is_valid(req.body) THEN << <<_clean_text(req.body), "Body">> >> ELSE <<>>)
        \o HeaderFeatures(req.headers, 1)

\* The labels of the two scorers.
TextLabels == {"valid", "sqli", "xss", "cmdi", "path-traversal"}
TamperLabels == {"valid", "parameter-tampering"}

\* What a call of predict on n samples can do: raise, or return one label
\* per sample.
PredictOutcomes(labels, n) ==
    {[raised |-> TRUE, labels |-> <<>>]}
        \cup {[raised |-> FALSE, labels |-> l] : l \in [1..n -> labels]}

\* No call of predict was made.
NoCall == [called |-> FALSE, raised |-> FALSE, labels |-> <<>>]

\* for idx, pred in enumerate(predictions): if pred != 'valid':
\*     req.threats[pred] = locations[idx]
RECURSIVE RecordLabels(_, _, _, _)
RecordLabels(recorded, labels, features, idx) ==
    Bind(recorded, LAMBDA threats :
        IF idx > Len(labels) THEN threats
        ELSE RecordLabels(IF labels[idx] # "valid"
                          THEN MapSet(threats, labels[idx], features[idx][2])
                          ELSE threats,
                          labels, features, idx + 1))

\* request_parameters: the query parameters of the cleaned request line.
request_parameters(req) ==
    IF _is_valid(req.request) THEN parse_qs(_clean_text(req.request)) ELSE <<>>

\* What parse_qs returned, as json.loads would give it: an object whose
\* values are lists of strings.
FormObject(form) ==
    [k |-> "dict",
     v |-> [i \in 1..Len(form) |->
                <<form[i][1],
                  [k |-> "list",
                   v |-> [j \in 1..Len(form[i][2]) |-> [k |-> "str", v |-> form[i][2][j]]]]>>]]

\* body_parameters: form decoding of the cleaned body; when that is empty,
\* whatever json.loads makes of the cleaned body, of any JSON type; {} when
\* it does not parse.
body_parameters(req) ==
    IF ~_is_valid(req.body) THEN [k |-> "dict", v |-> <<>>]
    ELSE Bind(parse_qs(_clean_text(req.body)), LAMBDA form :
            IF form # <<>> THEN FormObject(form)
            ELSE Bind(json_loads(_clean_text(req.body)), LAMBDA decoded :
                    IF decoded.ok THEN decoded.v ELSE [k |-> "dict", v |-> <<>>]))

\* for vals in request_parameters.values(): for elem in vals: [len(elem)]
RequestLengths(params) ==
    Flatten([i \in 1..Len(params) |->
                [j \in 1..Len(params[i][2]) |-> <<Len(params[i][2][j]), "Request">>]])

\* The features of one body item: of each element of a list, of the value
\* itself otherwise.
ItemLengths(value) ==
    IF value.k = "list"
    THEN [j \in 1..Len(value.v) |-> <<PyLen(value.v[j]), "Body">>]
    ELSE << <<PyLen(value), "Body">> >>

\* len() is applied to something without a length.
ItemRaises(value) ==
    IF value.k = "list"
    THEN \E j \in 1..Len(value.v) : ~HasLen(value.v[j])
    ELSE ~HasLen(value)

Raise(exception) == [ok |-> FALSE, exc |-> exception]

\* length_features and locations_len, as <<length, location>> pairs; or the
\* exception the loops raise: .items() of a value that is no dict, len() of
\* a value that has no length.
LengthFeatures(req) ==
    Bind(request_parameters(req), LAMBDA params :
    Bind(body_parameters(req), LAMBDA body :
        IF body.k # "dict" THEN Raise("AttributeError")
        ELSE IF \E i \in 1..Len(body.v) : ItemRaises(body.v[i][2]) THEN Raise("TypeError")
        ELSE [ok |-> TRUE,
              feats |-> RequestLengths(params)
                            \o Flatten([i \in 1..Len(body.v) |-> ItemLengths(body.v[i][2])])]))

\* A variant of the signature test that never skips the ML phase.
NeverSkipMl(scanned) == FALSE

\* if signature_threats: ... return
SkipMl(scanned) == DOMAIN scanned # {}

\* A variant that marks every request of the ML phase valid.
AlwaysMarkValid(threats) == MapSet(threats, "valid", "")

\* if not req.threats: req.threats['valid'] = ''
MarkValid(threats) ==
    IF DOMAIN threats = {} THEN MapSet(threats, "valid", "") ELSE threats

(***************************************************************************)
(* request.DBController: the audit store.  The tables are the sequences of *)
(* their rows as the writing connection sees them; a prefix of each is     *)
(* committed, and that is what another connection reads.                   *)
(***************************************************************************)

\* datetime.datetime.now(), the clock read for the tick-th time
Now(tick) == [type |-> "datetime", tick |-> tick]

\* sqlite3's default adapter: a datetime is stored as its ISO text, and a
\* TEXT column is read back as a str.
AdaptDatetime(dt) == [type |-> "str", iso |-> dt.tick]

\* The row INSERT INTO logs adds, id being the next rowid.
LogRow(id, obj) ==
    [id |-> id, timestamp |-> AdaptDatetime(obj.timestamp), origin |-> obj.origin,
     host |-> obj.host, method |-> obj.method]

\* cursor.lastrowid of the insert into logs
NextRowId(logRows) == IF logRows = <<>> THEN 1 ELSE logRows[Len(logRows)].id + 1

\* The order in which the labels of a threat map are listed.  A threat map is
\* kept as a function, which has no insertion order: items() lists the labels
\* in this fixed order.  The order decides only which rows a failing INSERT
\* INTO threats leaves behind, never which rows a returning save wrote.
LabelOrder ==
    <<"sqli", "xss", "cmdi", "path-traversal", "parameter-tampering", "valid">>

\* obj.threats.items()
Items(threats) ==
    Bind(SelectSeq(LabelOrder, LAMBDA label : label \in DOMAIN threats), LAMBDA labels :
        [i \in 1..Len(labels) |-> <<labels[i], threats[labels[i]]>>])

\* The rows INSERT INTO threats adds for one request.
ThreatRows(id, threats) ==
    Bind(Items(threats), LAMBDA items :
        [i \in 1..Len(items) |->
            [log_id |-> id, threat_type |-> items[i][1], location |-> items[i][2]]])

\* Request.to_json, as json.load reads it back from the snapshot file: the
\* request line and the body when non-empty, and every header.
to_json(obj) ==
    [key \in (IF Truthy(obj.request) THEN {"request"} ELSE {})
                \cup (IF Truthy(obj.body) THEN {"body"} ELSE {})
                \cup DOMAIN obj.headers |->
        IF key \in DOMAIN obj.headers THEN obj.headers[key]
        ELSE IF key = "request" THEN obj.request ELSE obj.body]

\* A variant with an outer join: a row of logs without threat rows is
\* returned once, with no threat columns.
LeftJoinAll(logRows, threatRows) ==
    Flatten([i \in 1..Len(logRows) |->
                Bind(SelectSeq(threatRows, LAMBDA t : t.log_id = logRows[i].id), LAMBDA ts :
                    IF ts = <<>>
                    THEN << [l |-> logRows[i],
                             t |-> [log_id |-> NoId, threat_type |-> None,
                                    location |-> None]] >>
                    ELSE [j \in 1..Len(ts) |-> [l |-> logRows[i], t |-> ts[j]]])])

\* SELECT * FROM logs AS l JOIN threats AS t ON l.id = t.log_id
JoinAll(logRows, threatRows) ==
    Flatten([i \in 1..Len(logRows) |->
                Bind(SelectSeq(threatRows, LAMBDA t : t.log_id = logRows[i].id), LAMBDA ts :
                    [j \in 1..Len(ts) |-> [l |-> logRows[i], t |-> ts[j]]])])

\* A variant of the query without its WHERE clause.
JoinAny(logRows, threatRows, id) == JoinAll(logRows, threatRows)

\* ... WHERE l.id = ?
JoinOne(logRows, threatRows, id) ==
    SelectSeq(JoinAll(logRows, threatRows), LAMBDA row : row.l.id = id)

\* DBController.read_request: (log, data)
read_request(logRows, threatRows, id) ==
    Bind(JoinOne(logRows, threatRows, id), LAMBDA results :
        [log |-> IF results # <<>>
                 THEN [timestamp |-> results[1].l.timestamp, origin |-> results[1].l.origin,
                       host |-> results[1].l.host, method |-> results[1].l.method]
                 ELSE EmptyDict,
         data |-> [i \in 1..Len(results) |->
                        <<results[i].t.threat_type, results[i].t.location>>]])

\* DBController._create_entry: the columns of the joined row, and the link,
\* which is told by the identifier it ends with.
_create_entry(row) ==
    [id |-> row.l.id, timestamp |-> row.l.timestamp, origin |-> row.l.origin,
     host |-> row.l.host, method |-> row.l.method, log_id |-> row.t.log_id,
     threat_type |-> row.t.threat_type, location |-> row.t.location,
     Link |-> <<"review", row.l.id>>]

\* DBController.read_all: one entry per joined row
read_all(logRows, threatRows) ==
    Bind(JoinAll(logRows, threatRows), LAMBDA results :
        [i \in 1..Len(results) |-> _create_entry(results[i])])

(***************************************************************************)
(* The Requests of a run and the state the pipeline and the store start in *)
(***************************************************************************)

\* The request the sniffer built, and another one, constructed with its
\* threat map (Request(threats={'xss': 'Cookie'})).
Requests == {"req", "other"}

OtherRequest ==
    [NewRequest("10.0.0.2", "other.host", None, None, "POST", <<>>)
        EXCEPT !.threats = [xss |-> "Cookie"]]

\* No call is running and none was made.
NoCallYet ==
    /\ pc = "idle"
    /\ cur = "req"
    /\ op = "none"
    /\ result = "none"
    /\ exc = "none"
    /\ signature_threats = EmptyDict
    /\ predictions = NoCall
    /\ pt_preds = NoCall
    /\ length_features = <<>>
    /\ clfCalls = 0
    /\ ptCalls = 0
    /\ classified = {}

\* The store of a database whose tables are empty; nothing was read.
EmptyStore ==
    /\ tblLogs = <<>>
    /\ tblThreats = <<>>
    /\ logsCommitted = 0
    /\ threatsCommitted = 0
    /\ files = <<>>
    /\ clock = 0
    /\ asked = <<>>
    /\ readOut = [id |-> NoId, log |-> EmptyDict, data |-> <<>>]

PipeIdle ==
    /\ objs = [o \in Requests |-> OtherRequest]
    /\ clf = "None"
    /\ pt_clf = "None"
    /\ NoCallYet
    /\ EmptyStore


(***************************************************************************)
(* Each check below runs one part of the program; the variables of the     *)
(* other parts rest at these values.                                       *)
(***************************************************************************)

NormIdle ==
    /\ nIn = None
    /\ nImpl = "rule_engine"
    /\ nOut1 = None
    /\ nOut2 = None
    /\ nStage = 2

(***************************************************************************)
(* Scan check: scan_request applied to a drawn request                     *)
(***************************************************************************)

\* Request lines, each with the signature categories its text holds.
RequestTexts ==
    << [text |-> <<"/", "s", "e", "a", "r", "c", "h", "?", "q", "=", "h", "e", "l", "l", "o">>,
        cats |-> {}],
       [text |-> <<"/", "?", "i", "d", "=", "1", "'", " ", "o", "r", " ", "'", "1", "'", "=", "'", "1", "'">>,
        cats |-> {"sqli"}],
       [text |-> <<"/", "?", "q", "=", "<", "s", "c", "r", "i", "p", "t", ">", "a", "l", "e", "r", "t", "(", "1", ")", "<", "/", "s", "c", "r", "i", "p", "t", ">">>,
        cats |-> {"xss"}],
       [text |-> <<"/", "?", "q", "=", "<", "s", "c", "r", "i", "p", "t", ">", "'", " ", "o", "r", " ", "1", "=", "1">>,
        cats |-> {"sqli", "xss"}],
       [text |-> <<"/", "?", "f", "=", ".", ".", "/", ".", ".", "/", "e", "t", "c", "/", "p", "a", "s", "s", "w", "d">>,
        cats |-> {"path-traversal"}],
       [text |-> <<"G", "E", "T", " ", "/", "?", "i", "d", "=", "1", "'", " ", "O", "R", " ", "'", "1", "'", "=", "'", "1">>,
        cats |-> {}] >>

\* Bodies, with the categories they hold and whether they yield parameters.
BodyTexts ==
    << [text |-> <<"a", "=", "1", "&", "b", "=", "t", "w", "o">>,
        cats |-> {}, params |-> TRUE],
       [text |-> <<"n", "o", "t", "e", "=", "u", "n", "i", "o", "n", " ", "s", "e", "l", "e", "c", "t", " ", "<", "i", "m", "g", " ", "s", "r", "c", "=", "x", " ", "o", "n", "e", "r", "r", "o", "r", "=", "y", ">">>,
        cats |-> {"sqli", "xss"}, params |-> TRUE],
       [text |-> <<"q", "=", "%", "2", "5", "3", "C", "s", "c", "r", "i", "p", "t", "%", "2", "5", "3", "E">>,
        cats |-> {"xss"}, params |-> TRUE],
       [text |-> <<"{", "\"", "c", "m", "d", "\"", ":", " ", "\"", "x", " ", "|", " ", "w", "h", "o", "a", "m", "i", "\"", "}">>,
        cats |-> {"cmdi"}, params |-> TRUE],
       [text |-> <<"p", "l", "a", "i", "n", " ", "t", "e", "x", "t">>,
        cats |-> {}, params |-> FALSE] >>

\* Cookie header values.
CookieTexts ==
    << [text |-> <<"s", "i", "d", "=", "a", "b", "c">>,
        cats |-> {}],
       [text |-> <<"s", "i", "d", "=", "'", " ", "o", "r", " ", "1", "=", "1">>,
        cats |-> {"sqli"}],
       [text |-> <<"s", "i", "d", "=", "j", "a", "v", "a", "s", "c", "r", "i", "p", "t", ":", "x">>,
        cats |-> {"xss"}] >>

\* User-Agent header values.
UserAgentTexts ==
    << [text |-> <<"M", "o", "z", "i", "l", "l", "a", "/", "5", ".", "0">>,
        cats |-> {}],
       [text |-> <<"c", "u", "r", "l", "/", "8", ".", "0">>,
        cats |-> {"cmdi"}] >>

\* Accept-Encoding header values.
AcceptEncodingTexts ==
    << [text |-> <<"g", "z", "i", "p", ",", " ", "d", "e", "f", "l", "a", "t", "e">>,
        cats |-> {}],
       [text |-> <<"g", "z", "i", "p", ";", "q", "=", "1", ".", "0">>,
        cats |-> {"cmdi"}] >>

\* Accept-Language header values.
AcceptLanguageTexts ==
    << [text |-> <<"e", "n", "-", "U", "S">>,
        cats |-> {}],
       [text |-> <<"e", "n", ";", "q", "=", "0", ".", "9", " ", "<", "s", "c", "r", "i", "p", "t">>,
        cats |-> {"xss", "cmdi"}] >>

\* Bound: the drawn parameter lengths lie within PadSpread of the limit.
PadSpread == 1

PadLens == (TamperLimit - PadSpread)..(TamperLimit + PadSpread)

Pad(n) == [i \in 1..n |-> "x"]

\* A choice among the texts of a field: 0 is the absent field.
Choices(texts) == 0..Len(texts)

TextOf(texts, i) == IF i = 0 THEN None ELSE texts[i].text

CatsOf(texts, i) == IF i = 0 THEN {} ELSE texts[i].cats

\* The chosen body yields at least one parameter.
YieldsParams(b) == IF b = 0 THEN FALSE ELSE BodyTexts[b].params

\* The locations scan_request names.
Locations ==
    {"Request", "Body", "Cookie", "User Agent", "Accept Encoding", "Accept Language"}

\* The header dictionary holding the chosen Cookie and User_Agent values.
HeadersOf(c, u) ==
    [h \in (IF c = 0 THEN {} ELSE {"Cookie"}) \cup (IF u = 0 THEN {} ELSE {"User_Agent"})
        |-> IF h = "Cookie" THEN CookieTexts[c].text ELSE UserAgentTexts[u].text]

\* A request whose fields are the chosen texts, with the categories each
\* location's text holds.
SignatureCase(r, b, c, u) ==
    [req |-> NewRequest("10.0.0.1", "host", TextOf(RequestTexts, r),
                        TextOf(BodyTexts, b), "GET", HeadersOf(c, u)),
     tags |-> [loc \in Locations |->
                  CASE loc = "Request" -> CatsOf(RequestTexts, r)
                    [] loc = "Body" -> CatsOf(BodyTexts, b)
                    [] loc = "Cookie" -> CatsOf(CookieTexts, c)
                    [] loc = "User Agent" -> CatsOf(UserAgentTexts, u)
                    [] OTHER -> {}],
     kind |-> "none",
     len |-> 0,
     bodyParams |-> YieldsParams(b)]

\* The header dictionary holding the chosen values of the four scanned
\* headers.
AllHeadersOf(c, u, e, l) ==
    [h \in (IF c = 0 THEN {} ELSE {"Cookie"}) \cup (IF u = 0 THEN {} ELSE {"User_Agent"})
            \cup (IF e = 0 THEN {} ELSE {"Accept_Encoding"})
            \cup (IF l = 0 THEN {} ELSE {"Accept_Language"})
        |-> CASE h = "Cookie" -> CookieTexts[c].text
              [] h = "User_Agent" -> UserAgentTexts[u].text
              [] h = "Accept_Encoding" -> AcceptEncodingTexts[e].text
              [] h = "Accept_Language" -> AcceptLanguageTexts[l].text]

\* A request without body whose request line and scanned headers are the
\* chosen texts.
HeaderCase(r, c, u, e, l) ==
    [req |-> NewRequest("10.0.0.1", "host", TextOf(RequestTexts, r), None, "GET",
                        AllHeadersOf(c, u, e, l)),
     tags |-> [loc \in Locations |->
                  CASE loc = "Request" -> CatsOf(RequestTexts, r)
                    [] loc = "Body" -> {}
                    [] loc = "Cookie" -> CatsOf(CookieTexts, c)
                    [] loc = "User Agent" -> CatsOf(UserAgentTexts, u)
                    [] loc = "Accept Encoding" -> CatsOf(AcceptEncodingTexts, e)
                    [] loc = "Accept Language" -> CatsOf(AcceptLanguageTexts, l)],
     kind |-> "none",
     len |-> 0,
     bodyParams |-> FALSE]

\* A request with one parameter value of n characters, placed in the query
\* string, in a form-encoded body or in a JSON body, and no other parameter
\* but (with `extra`) a short one in the other field.
TamperingCase(kind, n, extra) ==
    [req |-> NewRequest("10.0.0.1", "host",
                CASE kind = "query" -> <<"/", "p", "?", "q", "=">> \o Pad(n)
                  [] extra -> <<"/", "p", "?", "i", "d", "=", "7">>
                  [] OTHER -> <<"/", "p">>,
                CASE kind = "form" -> <<"n", "a", "m", "e", "=">> \o Pad(n)
                  [] kind = "json" ->
                        <<"{", "\"", "t", "o", "k", "e", "n", "\"", ":", " ", "\"">>
                            \o Pad(n) \o <<"\"", "}">>
                  [] extra -> <<"a", "=", "1">>
                  [] OTHER -> None,
                "POST", <<>>),
     tags |-> [loc \in Locations |-> {}],
     kind |-> kind,
     len |-> n,
     bodyParams |-> (kind \in {"form", "json"} \/ extra)]

\* Bodies that yield no parameter: neither form-encoded nor a JSON object.
UnparsedBodies ==
    << <<"p", "l", "a", "i", "n", " ", "t", "e", "x", "t">>,
       <<"[", "1", ",", " ", "2", "]">>,
       <<"5">> >>

\* A request with one query parameter value of n characters and a body that
\* yields no parameter.
UnparsedBodyCase(b, n) ==
    [req |-> NewRequest("10.0.0.1", "host", <<"/", "p", "?", "q", "=">> \o Pad(n),
                        UnparsedBodies[b], "POST", <<>>),
     tags |-> [loc \in Locations |-> {}],
     kind |-> "query",
     len |-> n,
     bodyParams |-> FALSE]

ScanCases ==
    {SignatureCase(r, b, c, u) :
        r \in Choices(RequestTexts), b \in Choices(BodyTexts),
        c \in Choices(CookieTexts), u \in Choices(UserAgentTexts)}
    \cup {HeaderCase(r, c, u, e, l) :
            r \in Choices(RequestTexts), c \in Choices(CookieTexts),
            u \in Choices(UserAgentTexts), e \in Choices(AcceptEncodingTexts),
            l \in Choices(AcceptLanguageTexts)}
    \cup {TamperingCase(kind, n, extra) :
            kind \in {"query", "form", "json"}, n \in PadLens, extra \in BOOLEAN}
    \cup {UnparsedBodyCase(b, n) : b \in 1..Len(UnparsedBodies), n \in PadLens}

ScanIdle ==
    /\ sCase = SignatureCase(0, 0, 0, 0)
    /\ sOut = EmptyDict
    /\ sDone = TRUE

InitScan ==
    /\ sCase \in ScanCases
    /\ sOut = EmptyDict
    /\ sDone = FALSE
    /\ NormIdle
    /\ PipeIdle

\* threats = scan_request(req)
Scan ==
    /\ ~sDone
    /\ sOut' = scan_request(sCase.req)
    /\ sDone' = TRUE
    /\ UNCHANGED <<sCase, normVars, pipeVars, storeVars>>

NextScan == Scan

SpecScan == InitScan /\ [][NextScan]_vars

(***************************************************************************)
(* Properties of scan_request                                              *)
(***************************************************************************)

\* C8: scan_request records parameter-tampering iff some extracted parameter
\* value is longer than 100 characters: a single value of exactly 100 does
\* not get the label, one of 101 (from the query or from the body) does.
C8_TamperingBoundary ==
    sDone => (("parameter-tampering" \in DOMAIN sOut)
                <=> (sCase.kind # "none" /\ sCase.len > 100))

\* A JSON body whose only value has 101 characters was scanned and labelled.
C8_Witness ==
    /\ sDone
    /\ sCase.kind = "json"
    /\ sCase.len = 101
    /\ "parameter-tampering" \in DOMAIN sOut
    /\ sOut["parameter-tampering"] = "Body"

\* The scan order of the locations drawn.
FieldOrder ==
    <<"Request", "Body", "Cookie", "User Agent", "Accept Encoding", "Accept Language">>

Position(loc) == CHOOSE i \in 1..Len(FieldOrder) : FieldOrder[i] = loc

\* Some field scanned before `loc` holds a pattern of category c.
HeldEarlier(c, loc) ==
    \E i \in 1..(Position(loc) - 1) : c \in sCase.tags[FieldOrder[i]]

SignatureCategories == {SIGNATURES[i][1] : i \in 1..Len(SIGNATURES)}

\* The signature categories recorded with location `loc`.
RecordedAt(loc) == {c \in DOMAIN sOut \cap SignatureCategories : sOut[c] = loc}

\* A field that holds patterns of one category only gets no other category.
OnlyCategoryRecorded ==
    \A i \in 1..Len(FieldOrder) : \A c \in SignatureCategories :
        sCase.tags[FieldOrder[i]] = {c} => RecordedAt(FieldOrder[i]) \subseteq {c}

\* C9 as stated: in a field that holds both a SQLi and an XSS pattern the
\* category tested first (sqli) wins, so xss is not recorded for that field;
\* a field that holds one category only records only that category.
C9_FirstCategoryWins ==
    sDone =>
        /\ \A i \in 1..Len(FieldOrder) :
              ({"sqli", "xss"} \subseteq sCase.tags[FieldOrder[i]]
                    /\ ~HeldEarlier("sqli", FieldOrder[i]))
                => (RecordedAt(FieldOrder[i]) \cap {"sqli", "xss"}) = {"sqli"}
        /\ OnlyCategoryRecorded

\* C9 as amended: in a field that holds both a SQLi and an XSS pattern both
\* categories are recorded, each with that field's location unless an earlier
\* field already held it (sqli is tested first but does not suppress xss); a
\* field that holds one category only records only that category.
C9_BothCategoriesRecorded ==
    sDone =>
        /\ \A i \in 1..Len(FieldOrder) : \A c \in {"sqli", "xss"} :
              {"sqli", "xss"} \subseteq sCase.tags[FieldOrder[i]]
                => /\ c \in DOMAIN sOut
                   /\ (sOut[c] = FieldOrder[i]) <=> ~HeldEarlier(c, FieldOrder[i])
        /\ OnlyCategoryRecorded

\* The request line held both patterns and both were recorded for it, and
\* the body, with a cmdi pattern only, got cmdi only.
C9_Witness ==
    /\ sDone
    /\ {"sqli", "xss"} \subseteq sCase.tags["Request"]
    /\ RecordedAt("Request") = {"sqli", "xss"}
    /\ sCase.tags["Body"] = {"cmdi"}
    /\ RecordedAt("Body") = {"cmdi"}

(***************************************************************************)
(* Normaliser check: normalize applied once and twice to a drawn input     *)
(***************************************************************************)

\* Bounds of the drawn inputs.
NormMaxLen == 3
NormMaxLayers == 6

NormAlphabet == {"%", "2", "5", "0", "+", " ", "A"}

RECURSIVE SeqsUpTo(_, _)
SeqsUpTo(S, n) ==
    IF n = 0 THEN {<<>>}
    ELSE LET shorter == SeqsUpTo(S, n - 1)
         IN  shorter \cup {Append(s, c) : s \in {t \in shorter : Len(t) = n - 1}, c \in S}

\* "%" followed by k times "25" and then `tail`: `tail` percent-encoded under
\* k further layers of encoding of its "%".
RECURSIVE Layered(_, _)
Layered(k, tail) == IF k = 0 THEN <<"%">> \o tail ELSE <<"%", "2", "5">> \o Tail(Layered(k - 1, tail))

NormInputs ==
    SeqsUpTo(NormAlphabet, NormMaxLen)
        \cup {Layered(k, <<"4", "1">>) : k \in 0..NormMaxLayers}
        \cup {Layered(k, <<"2", "0", "A", "+">>) : k \in 0..NormMaxLayers}
        \cup {None}

Normalize(impl, text) ==
    IF impl = "rule_engine" THEN _clean(text) ELSE _clean_text(text)

InitNorm ==
    /\ nIn \in NormInputs
    /\ nImpl \in {"rule_engine", "classifier"}
    /\ nOut1 = None
    /\ nOut2 = None
    /\ nStage = 0
    /\ ScanIdle
    /\ PipeIdle

NormalizeOnce ==
    /\ nStage = 0
    /\ nOut1' = Normalize(nImpl, nIn)
    /\ nStage' = 1
    /\ UNCHANGED <<nIn, nImpl, nOut2, scanVars, pipeVars, storeVars>>

NormalizeTwice ==
    /\ nStage = 1
    /\ nOut2' = Normalize(nImpl, nOut1)
    /\ nStage' = 2
    /\ UNCHANGED <<nIn, nImpl, nOut1, scanVars, pipeVars, storeVars>>

NextNorm == NormalizeOnce \/ NormalizeTwice

SpecNorm == InitNorm /\ [][NextNorm]_vars

\* The input reaches a decode fixpoint within `cap` decodes.
RECURSIVE DecodeTimes(_, _)
DecodeTimes(text, n) ==
    Bind(text, LAMBDA s : IF n = 0 THEN s ELSE DecodeTimes(unquote_plus(s), n - 1))

StabilizesWithin(s, cap) ==
    Bind(DecodeTimes(s, cap), LAMBDA d : unquote_plus(d) = d)

\* C10: normalisation is idempotent on every input that reaches a decode
\* fixpoint within the 5-iteration cap, for both implementations, and the
\* absent input normalises to the empty string.
C10_NormalizeIdempotent ==
    /\ (nStage >= 1 /\ nIn = None) => nOut1 = <<>>
    /\ (nStage = 2 /\ nIn # None /\ StabilizesWithin(nIn, 5)) => nOut2 = nOut1

\* An encoded input that needed decoding, stabilised, and was normalised twice.
C10_Witness ==
    /\ nStage = 2
    /\ nIn # None
    /\ StabilizesWithin(nIn, 5)
    /\ unquote_plus(nIn) # nIn
    /\ unquote_plus(unquote_plus(nIn)) # unquote_plus(nIn)
    /\ nOut1 # <<>>
    /\ nOut1 # nIn


(***************************************************************************)
(* The pipeline: classify_request and save called on the Requests, one     *)
(* call at a time (the sniffer's callback is synchronous), and             *)
(* read_request on another connection at any moment.                       *)
(***************************************************************************)

\* Bound: the number of save calls of a run.
MaxSaves == 2

\* What the sniffer captured: request line, body and headers.
PipelineInputs ==
    << [request |-> <<"/", "s", "e", "a", "r", "c", "h", "?", "q", "=", "h", "e", "l", "l", "o">>,
        body |-> None, headers |-> <<>>],
       [request |-> <<"/", "?", "q", "=", "<", "s", "c", "r", "i", "p", "t", ">">>,
        body |-> None, headers |-> <<>>],
       [request |-> <<"/", "p">>, body |-> <<"5">>, headers |-> <<>>],
       [request |-> None, body |-> <<"{", "\"", "a", "\"", ":", " ", "5", "}">>,
        headers |-> <<>>],
       [request |-> <<"/", "p">>,
        body |-> <<"{", "\"", "a", "\"", ":", " ", "\"", "x", "y", "\"", ",", " ",
                   "\"", "b", "\"", ":", " ", "[", "\"", "z", "\"", "]", "}">>,
        headers |-> <<>>],
       [request |-> None, body |-> <<"a", "=", "1", "&", "b", "=", "t", "w", "o">>,
        headers |-> [Cookie |-> <<"s", "i", "d", "=", "a", "b", "c">>]],
       [request |-> <<"/", "p">>, body |-> <<"p", "l", "a", "i", "n", " ", "t", "e", "x", "t">>,
        headers |-> <<>>],
       [request |-> None, body |-> None, headers |-> <<>>],
       [request |-> <<"/", "p">>, body |-> <<"[", "1", ",", " ", "2", "]">>, headers |-> <<>>],
       [request |-> <<"G", "E", "T", " ", "/", "?", "i", "d", "=", "1", "'", " ", "O", "R", " ",
                      "'", "1", "'", "=", "'", "1">>,
        body |-> None, headers |-> <<>>],
       [request |-> None,
        body |-> <<"{", "\"", "k", "\"", ":", " ", "\"", "x", " ", " ", "y", "\"", "}">>,
        headers |-> <<>>] >>

\* The inputs of the runs that also use the store: a request line of the
\* signature phase, and a request without text, which needs no scorer.
StoreInputs == <<PipelineInputs[2], PipelineInputs[8]>>

\* The Requests the sniffer hands to classify_request.
Classified == {"req"}

\* The state after Request(), ThreatClassifier() and DBController():
\* each scorer loaded or None.
InitWith(inputs, scorers) ==
    /\ \E i \in 1..Len(inputs) :
          objs = [o \in Requests |->
                    IF o = "req"
                    THEN NewRequest("10.0.0.1", "host", inputs[i].request, inputs[i].body,
                                    "GET", inputs[i].headers)
                    ELSE OtherRequest]
    /\ clf \in scorers
    /\ pt_clf \in scorers
    /\ NoCallYet
    /\ EmptyStore
    /\ NormIdle
    /\ ScanIdle

\* classify_request, lines 65-77: the signature phase; a non-empty result is
\* final.
ClassifySignature ==
    /\ pc = "idle"
    /\ \E o \in Classified : \E scanned \in {scan_request(objs[o])} :
          /\ cur' = o
          /\ signature_threats' = scanned
          /\ IF SkipMl(scanned)
             THEN /\ objs' = [objs EXCEPT ![o].threats = scanned]
                  /\ pc' = "idle"
                  /\ result' = "returned"
                  /\ classified' = classified \cup {o}
             ELSE /\ objs' = [objs EXCEPT ![o].threats = EmptyDict]
                  /\ pc' = "text"
                  /\ result' = "running"
                  /\ UNCHANGED classified
    /\ op' = "classify"
    /\ exc' = "none"
    /\ predictions' = NoCall
    /\ pt_preds' = NoCall
    /\ length_features' = <<>>
    /\ clfCalls' = 0
    /\ ptCalls' = 0
    /\ UNCHANGED <<clf, pt_clf, storeVars, normVars, scanVars>>

\* lines 78-110: the text features and the text scorer
ClassifyText ==
    /\ pc = "text"
    /\ \E features \in {TextFeatures(objs[cur])} :
          IF features # <<>> /\ clf # "None"
          THEN \E out \in PredictOutcomes(TextLabels, Len(features)) :
                  /\ predictions' = [called |-> TRUE, raised |-> out.raised,
                                     labels |-> out.labels]
                  /\ clfCalls' = clfCalls + 1
                  /\ objs' = [objs EXCEPT ![cur].threats =
                                IF out.raised THEN @
                                ELSE RecordLabels(@, out.labels, features, 1)]
          ELSE UNCHANGED <<predictions, clfCalls, objs>>
    /\ pc' = "features"
    /\ UNCHANGED <<clf, pt_clf, classified, cur, op, result, exc, signature_threats, pt_preds,
                   length_features, ptCalls, storeVars, normVars, scanVars>>

\* lines 112-145: parameter extraction and the length features; an
\* exception of the loops leaves classify_request.
ClassifyFeatures ==
    /\ pc = "features"
    /\ \E extracted \in {LengthFeatures(objs[cur])} :
          IF extracted.ok
          THEN /\ length_features' = extracted.feats
               /\ pc' = "tamper"
               /\ UNCHANGED <<result, exc>>
          ELSE /\ pc' = "idle"
               /\ result' = "raised"
               /\ exc' = extracted.exc
               /\ UNCHANGED length_features
    /\ UNCHANGED <<objs, clf, pt_clf, classified, cur, op, signature_threats, predictions, pt_preds,
                   clfCalls, ptCalls, storeVars, normVars, scanVars>>

\* lines 147-158: the tampering scorer and the fallback label
ClassifyTamper ==
    /\ pc = "tamper"
    /\ IF length_features # <<>> /\ pt_clf # "None"
       THEN \E out \in PredictOutcomes(TamperLabels, Len(length_features)) :
               /\ pt_preds' = [called |-> TRUE, raised |-> out.raised, labels |-> out.labels]
               /\ ptCalls' = ptCalls + 1
               /\ objs' = [objs EXCEPT ![cur].threats =
                             MarkValid(IF out.raised THEN @
                                       ELSE RecordLabels(@, out.labels, length_features, 1))]
       ELSE /\ objs' = [objs EXCEPT ![cur].threats = MarkValid(@)]
            /\ UNCHANGED <<pt_preds, ptCalls>>
    /\ pc' = "idle"
    /\ result' = "returned"
    /\ classified' = classified \cup {cur}
    /\ UNCHANGED <<clf, pt_clf, cur, op, exc, signature_threats, predictions,
                   length_features, clfCalls, storeVars, normVars, scanVars>>

\* A call of save starts: the locals of the call before are gone.
SaveStarts(o) ==
    /\ pc = "idle"
    /\ clock < MaxSaves
    /\ cur' = o
    /\ op' = "save"
    /\ clock' = clock + 1
    /\ signature_threats' = EmptyDict
    /\ predictions' = NoCall
    /\ pt_preds' = NoCall
    /\ length_features' = <<>>
    /\ clfCalls' = 0
    /\ ptCalls' = 0

\* save, lines 85-95: the timestamp, the metadata row, the identifier
SaveInsertLog ==
    /\ \E o \in Requests :
          /\ SaveStarts(o)
          /\ \E stamped \in {[objs[o] EXCEPT !.timestamp = Now(clock + 1)]} :
                /\ tblLogs' = Append(tblLogs, LogRow(NextRowId(tblLogs), stamped))
                /\ objs' = [objs EXCEPT ![o] = [stamped EXCEPT !.id = NextRowId(tblLogs)]]
                /\ asked' = Append(asked, [obj |-> o, timestamp |-> stamped.timestamp,
                                           threats |-> stamped.threats, done |-> FALSE,
                                           classified |-> o \in classified])
    /\ pc' = "snapshot"
    /\ result' = "running"
    /\ exc' = "none"
    /\ UNCHANGED <<clf, pt_clf, classified, tblThreats, logsCommitted, threatsCommitted, files,
                   readOut, normVars, scanVars>>

\* The INSERT INTO logs raises, after the timestamp was assigned.
SaveInsertLogRaises ==
    /\ \E o \in Requests :
          /\ SaveStarts(o)
          /\ objs' = [objs EXCEPT ![o].timestamp = Now(clock + 1)]
    /\ pc' = "idle"
    /\ result' = "raised"
    /\ exc' = "sqlite3.Error"
    /\ UNCHANGED <<clf, pt_clf, classified, tblLogs, tblThreats, logsCommitted, threatsCommitted,
                   files, asked, readOut, normVars, scanVars>>

callVars ==
    <<cur, op, signature_threats, predictions, pt_preds, length_features, clfCalls, ptCalls>>

\* save raises: the exception leaves the call, nothing is rolled back.
SaveRaises(at, exception) ==
    /\ pc = at
    /\ pc' = "idle"
    /\ result' = "raised"
    /\ exc' = exception

\* lines 96-101: the snapshot file requests_log/<id>.json
SaveSnapshot ==
    /\ pc = "snapshot"
    /\ files' = [id \in DOMAIN files \cup {objs[cur].id} |->
                    IF id = objs[cur].id THEN to_json(objs[cur]) ELSE files[id]]
    /\ pc' = "threats"
    /\ UNCHANGED <<objs, clf, pt_clf, classified, result, exc, callVars, tblLogs, tblThreats,
                   logsCommitted, threatsCommitted, clock, asked, readOut,
                   normVars, scanVars>>

SaveSnapshotRaises ==
    /\ SaveRaises("snapshot", "OSError")
    /\ UNCHANGED <<objs, clf, pt_clf, classified, callVars, storeVars, normVars, scanVars>>

\* lines 102-107: one row per entry of obj.threats
SaveThreats ==
    /\ pc = "threats"
    /\ tblThreats' = tblThreats \o ThreatRows(objs[cur].id, objs[cur].threats)
    /\ pc' = "commit"
    /\ UNCHANGED <<objs, clf, pt_clf, classified, result, exc, callVars, tblLogs, logsCommitted,
                   threatsCommitted, files, clock, asked, readOut, normVars, scanVars>>

\* One of the INSERTs INTO threats raises; the rows before it are inserted.
SaveThreatsRaises ==
    /\ SaveRaises("threats", "sqlite3.Error")
    /\ \E rows \in {ThreatRows(objs[cur].id, objs[cur].threats)} :
       \E n \in 0..(Len(rows) - 1) :
          tblThreats' = tblThreats \o SubSeq(rows, 1, n)
    /\ UNCHANGED <<objs, clf, pt_clf, classified, callVars, tblLogs, logsCommitted, threatsCommitted,
                   files, clock, asked, readOut, normVars, scanVars>>

\* line 108: commit makes every row the connection inserted visible
SaveCommit ==
    /\ pc = "commit"
    /\ logsCommitted' = Len(tblLogs)
    /\ threatsCommitted' = Len(tblThreats)
    /\ asked' = [asked EXCEPT ![objs[cur].id].done = TRUE]
    /\ pc' = "idle"
    /\ result' = "returned"
    /\ UNCHANGED <<objs, clf, pt_clf, classified, exc, callVars, tblLogs, tblThreats, files, clock,
                   readOut, normVars, scanVars>>

SaveCommitRaises ==
    /\ SaveRaises("commit", "sqlite3.Error")
    /\ UNCHANGED <<objs, clf, pt_clf, classified, callVars, storeVars, normVars, scanVars>>

\* What another connection sees of the two tables.
CommittedLogs == SubSeq(tblLogs, 1, logsCommitted)
CommittedThreats == SubSeq(tblThreats, 1, threatsCommitted)

\* read_request(id) on another connection (the dashboard opens its own)
ReadRequest ==
    /\ \E id \in 1..MaxSaves :
       \E out \in {read_request(CommittedLogs, CommittedThreats, id)} :
          readOut' = [id |-> id, log |-> out.log, data |-> out.data]
    /\ UNCHANGED <<pipeVars, tblLogs, tblThreats, logsCommitted, threatsCommitted, files,
                   clock, asked, normVars, scanVars>>

\* read_all() on another connection: the entries take the place of the
\* pairs in readOut, for no identifier.
ReadAll ==
    /\ readOut' = [id |-> NoId, log |-> EmptyDict,
                   data |-> read_all(CommittedLogs, CommittedThreats)]
    /\ UNCHANGED <<pipeVars, tblLogs, tblThreats, logsCommitted, threatsCommitted, files,
                   clock, asked, normVars, scanVars>>

Classify == ClassifySignature \/ ClassifyText \/ ClassifyFeatures \/ ClassifyTamper

Save ==
    \/ SaveInsertLog \/ SaveInsertLogRaises
    \/ SaveSnapshot \/ SaveSnapshotRaises
    \/ SaveThreats \/ SaveThreatsRaises
    \/ SaveCommit \/ SaveCommitRaises

Init == InitWith(StoreInputs, {"loaded"})

Next == Classify \/ Save \/ ReadRequest \/ ReadAll

Spec == Init /\ [][Next]_vars

\* classify_request alone, on every input.
InitClassify == InitWith(PipelineInputs, {"None", "loaded"})

NextClassify == Classify

SpecClassify == InitClassify /\ [][NextClassify]_vars

(***************************************************************************)
(* Properties of classify_request                                          *)
(***************************************************************************)

\* classify_request has returned, and no call was made since.
ClassifyReturned == pc = "idle" /\ op = "classify" /\ result = "returned"

\* The ML phase of classify_request has ended, by a return or an exception.
MlPhaseEnded == pc = "idle" /\ op = "classify" /\ DOMAIN signature_threats = {}

\* A call of predict gave `label` to a sample of `location`.
PredictedAt(call, features, label, location) ==
    \E idx \in 1..Len(call.labels) :
        call.labels[idx] = label /\ features[idx][2] = location

FromTextScorer(label, location) ==
    PredictedAt(predictions, TextFeatures(objs[cur]), label, location)

FromTamperScorer(label, location) ==
    PredictedAt(pt_preds, length_features, label, location)

\* Every entry is a label other than valid that a scorer predicted, at the
\* location of the sample that got it.
MlDerived(threats) ==
    \A label \in DOMAIN threats :
        /\ label # "valid"
        /\ FromTextScorer(label, threats[label]) \/ FromTamperScorer(label, threats[label])

OnlyValid == [valid |-> ""]

\* C1: whenever classify_request returns, the threat map is not empty: it is
\* the map of the signature phase, or it holds labels the scorers predicted,
\* or it is exactly {valid: ''}; valid never stands beside another label.
C1_ThreatsNeverEmpty ==
    ClassifyReturned =>
        /\ DOMAIN objs[cur].threats # {}
        /\ "valid" \in DOMAIN objs[cur].threats => objs[cur].threats = OnlyValid
        /\ \/ DOMAIN signature_threats # {} /\ objs[cur].threats = signature_threats
           \/ DOMAIN signature_threats = {} /\ MlDerived(objs[cur].threats)
           \/ DOMAIN signature_threats = {} /\ objs[cur].threats = OnlyValid

\* Both scorers were called and each gave a label: the map holds the two,
\* without valid.
C1_Witness ==
    /\ ClassifyReturned
    /\ predictions.called
    /\ pt_preds.called
    /\ DOMAIN objs[cur].threats = {"sqli", "parameter-tampering"}
    /\ objs[cur].threats["sqli"] = "Request"

\* C2: when scan_request returns a non-empty map, neither predict is called
\* and the final map is that map; the ML phase is entered only after an
\* empty map of the signature phase.
C2_HardPrecedence ==
    /\ pc \in {"text", "features", "tamper"} => DOMAIN signature_threats = {}
    /\ (op = "classify" /\ DOMAIN signature_threats # {}) =>
          /\ clfCalls = 0
          /\ ptCalls = 0
          /\ ~predictions.called
          /\ ~pt_preds.called
          /\ result = "returned"
          /\ objs[cur].threats = signature_threats

\* A signature matched while both scorers were loaded, and the call returned
\* the map of the signature phase.
C2_Witness ==
    /\ ClassifyReturned
    /\ clf = "loaded"
    /\ pt_clf = "loaded"
    /\ signature_threats = [xss |-> "Request"]
    /\ objs[cur].threats = signature_threats
    /\ clfCalls = 0
    /\ ptCalls = 0

\* A scorer is unavailable or raised in predict.
TextFailed == clf = "None" \/ predictions.raised
TamperFailed == pt_clf = "None" \/ pt_preds.raised

\* The labels other than valid of a call, each recorded.
LabelsRecorded(call) ==
    \A idx \in 1..Len(call.labels) :
        call.labels[idx] # "valid" => call.labels[idx] \in DOMAIN objs[cur].threats

\* C3: when a scorer is unavailable or raises in predict, classify_request
\* does not raise, that scorer contributes no label, the labels of the other
\* scorer are recorded, and without any label the map is {valid: ''}.
C3_ScorerFailureRecovered ==
    (MlPhaseEnded /\ (TextFailed \/ TamperFailed)) =>
        /\ result = "returned"
        /\ TextFailed =>
              \A label \in DOMAIN objs[cur].threats \ {"valid"} :
                  FromTamperScorer(label, objs[cur].threats[label])
        /\ TamperFailed =>
              \A label \in DOMAIN objs[cur].threats \ {"valid"} :
                  FromTextScorer(label, objs[cur].threats[label])
        /\ LabelsRecorded(predictions)
        /\ LabelsRecorded(pt_preds)
        /\ (DOMAIN objs[cur].threats \ {"valid"} = {}) => objs[cur].threats = OnlyValid

\* The body is neither form-encoded nor JSON.
BodyUnparseable(req) ==
    /\ _is_valid(req.body)
    /\ parse_qs(_clean_text(req.body)) = <<>>
    /\ ~json_loads(_clean_text(req.body)).ok

\* C4: parameter extraction never raises: whatever the request line and the
\* body (form-encoded, a JSON object with values of any type, a JSON value
\* that is no object, not parseable), the ML phase of classify_request ends
\* without an exception, and a body that does not parse contributes no
\* parameter.
C4_ExtractionNeverRaises ==
    /\ op = "classify" => result # "raised"
    /\ (pc = "tamper" /\ BodyUnparseable(objs[cur])) =>
          \A idx \in 1..Len(length_features) : length_features[idx][2] # "Body"

(***************************************************************************)
(* Properties of the audit store                                           *)
(***************************************************************************)

\* C5: every metadata row a reader on another connection can see has its
\* snapshot file and all the threat rows of its request, whatever saves ran
\* or failed before.
C5_VisibleRowsComplete ==
    \A i \in 1..logsCommitted :
        /\ tblLogs[i].id \in DOMAIN files
        /\ \A label \in DOMAIN asked[tblLogs[i].id].threats :
              \E j \in 1..threatsCommitted :
                  tblThreats[j] = [log_id |-> tblLogs[i].id, threat_type |-> label,
                                   location |-> asked[tblLogs[i].id].threats[label]]

\* save returned for the identifier, and the request had a threat map.
SavedWithThreats(id) == asked[id].done /\ DOMAIN asked[id].threats # {}

\* The pairs are the entries of the map, one pair per entry.
PairsAreEntries(data, threats) ==
    /\ Len(data) = Cardinality(DOMAIN threats)
    /\ {data[i] : i \in 1..Len(data)} = {<<label, threats[label]>> : label \in DOMAIN threats}

\* The metadata of the request saved under id, with the given timestamp.
Metadata(id, timestamp) ==
    [timestamp |-> timestamp, origin |-> objs[asked[id].obj].origin,
     host |-> objs[asked[id].obj].host, method |-> objs[asked[id].obj].method]

\* C6 as stated: after save(req) returned for a request with a threat map,
\* read_request(req.id) returns the timestamp save assigned, origin, host
\* and method, and exactly the entries of req.threats, one pair each.
C6_RoundTripExact ==
    \A id \in 1..Len(asked) :
        SavedWithThreats(id) =>
            /\ read_request(CommittedLogs, CommittedThreats, id).log
                    = Metadata(id, asked[id].timestamp)
            /\ PairsAreEntries(read_request(CommittedLogs, CommittedThreats, id).data,
                               asked[id].threats)

\* C6 as amended: after save(req) returned for a request with a threat map,
\* read_request(req.id) returns the timestamp save assigned in the ISO text
\* form the database keeps (not the datetime), origin, host and method as
\* saved, and exactly the entries of req.threats, one pair each, whatever
\* other requests were saved before or after.
C6_RoundTripAdapted ==
    \A id \in 1..Len(asked) :
        SavedWithThreats(id) =>
            /\ read_request(CommittedLogs, CommittedThreats, id).log
                    = Metadata(id, AdaptDatetime(asked[id].timestamp))
            /\ PairsAreEntries(read_request(CommittedLogs, CommittedThreats, id).data,
                               asked[id].threats)

\* Two requests were saved, and the one saved first was read after the
\* other's save: its own pair came back, with the text of its timestamp.
C6_Witness ==
    /\ Len(asked) = 2
    /\ asked[1].done
    /\ asked[2].done
    /\ asked[1].obj # asked[2].obj
    /\ DOMAIN asked[1].threats = {"xss"}
    /\ DOMAIN asked[2].threats = {"xss"}
    /\ asked[1].threats # asked[2].threats
    /\ readOut.id = 1
    /\ readOut.data = << <<"xss", asked[1].threats["xss"]>> >>
    /\ readOut.log = Metadata(1, AdaptDatetime(asked[1].timestamp))

\* save returned for the Request.
Persisted(o) == \E id \in 1..Len(asked) : asked[id].obj = o /\ asked[id].done

\* C7: between calls, identifier and timestamp of a Request are unset until
\* a save of it returned (also after a save that raised); once it is
\* persisted, no step of a later classify_request or save changes its
\* identifier, timestamp or threat map.
C7_RequestLifecycle ==
    [][\A o \in Requests :
          /\ (pc' = "idle" /\ ~Persisted(o)') =>
                (objs'[o].id = NoId /\ objs'[o].timestamp = NoTimestamp)
          /\ Persisted(o) =>
                /\ objs'[o].id = objs[o].id
                /\ objs'[o].timestamp = objs[o].timestamp
                /\ objs'[o].threats = objs[o].threats]_vars

(***************************************************************************)
(* Scenarios                                                               *)
(***************************************************************************)

\* The request line GET /?id=1' OR '1'='1
SqliScenarioLine == PipelineInputs[10].request

\* C11: for the request line GET /?id=1' OR '1'='1 (no body, no scanned
\* header) the signature phase records sqli at Request, the final map holds
\* sqli -> Request, and the ML phase is skipped: no step of it runs and no
\* scorer is called.
C11_SqliScenarioDetected ==
    (op = "classify" /\ objs[cur].request = SqliScenarioLine) =>
        /\ "sqli" \in DOMAIN signature_threats
        /\ signature_threats["sqli"] = "Request"
        /\ pc \notin {"text", "features", "tamper"}
        /\ clfCalls = 0
        /\ ptCalls = 0
        /\ result = "returned"
        /\ "sqli" \in DOMAIN objs[cur].threats
        /\ objs[cur].threats["sqli"] = "Request"

(***************************************************************************)
(* Further properties of scan_request                                      *)
(***************************************************************************)

\* Some field of the request holds a pattern of category c.
HeldSomewhere(c) == \E i \in 1..Len(FieldOrder) : c \in sCase.tags[FieldOrder[i]]

\* C12: scan_request scans the fields in the order Request, Body, Cookie,
\* User Agent, Accept Encoding, Accept Language, skipping absent and empty
\* ones; each signature category is recorded iff some field holds a pattern
\* of it, and then with the first such field in that order: a later field
\* holding it never replaces the location.
C12_FirstHitWins ==
    sDone =>
        \A c \in SignatureCategories :
            /\ (c \in DOMAIN sOut) <=> HeldSomewhere(c)
            /\ c \in DOMAIN sOut =>
                    /\ sOut[c] \in Locations
                    /\ c \in sCase.tags[sOut[c]]
                    /\ ~HeldEarlier(c, sOut[c])

\* cmdi is held by User Agent, Accept Encoding and Accept Language and xss
\* by Cookie and Accept Language, the request line is absent: each category
\* was recorded with the first of its fields, and sqli, held nowhere, was
\* not recorded.
C12_Witness ==
    /\ sDone
    /\ sCase.req.request = None
    /\ sCase.tags["Cookie"] = {"xss"}
    /\ sCase.tags["User Agent"] = {"cmdi"}
    /\ sCase.tags["Accept Encoding"] = {"cmdi"}
    /\ sCase.tags["Accept Language"] = {"xss", "cmdi"}
    /\ sOut = [xss |-> "Cookie", cmdi |-> "User Agent"]

\* C13: whenever scan_request records parameter-tampering, the location is
\* Body if the body yielded at least one parameter and Request otherwise,
\* whichever of the two parameter sets held the over-long value.
C13_TamperingLocation ==
    (sDone /\ "parameter-tampering" \in DOMAIN sOut) =>
        sOut["parameter-tampering"] = (IF sCase.bodyParams THEN "Body" ELSE "Request")

\* The value of 101 characters was in the query string and the body held a
\* short parameter: the label was recorded with Body.
C13_Witness ==
    /\ sDone
    /\ sCase.kind = "query"
    /\ sCase.len = 101
    /\ sCase.bodyParams
    /\ "parameter-tampering" \in DOMAIN sOut
    /\ sOut["parameter-tampering"] = "Body"

(***************************************************************************)
(* scan_request against the ML phase                                       *)
(***************************************************************************)

\* C14: the parameter-value lengths the ML phase of classify_request
\* extracts as tampering features, with their Request/Body attribution, are
\* the lengths scan_request tests against the limit, in the same order, also
\* for JSON bodies.
C14_SameLengthsAsScan ==
    pc = "tamper" => length_features = CheckedLengths(objs[cur])

(***************************************************************************)
(* The reads of the audit store                                            *)
(***************************************************************************)

\* An identifier no row of logs has.
UnknownId == Len(tblLogs) + 1

\* What a reader on another connection gets.
ReadOne(id) == read_request(CommittedLogs, CommittedThreats, id)
ReadEvery == read_all(CommittedLogs, CommittedThreats)

====
